---- MODULE Spec2Model ----
(***************************************************************************)
(* State-machine model of src/src/text_splitter.py (class TextSplitter).   *)
(*                                                                         *)
(* Python dicts are records; a dict that is shared by reference lives in   *)
(* `heap` and is named by its index there, so that two list positions     *)
(* holding the same dict object are two equal indexes.  Strings are TLA+   *)
(* strings; the tokenizer is abstracted to one token per character.        *)
(*                                                                         *)
(* Spec      : _split_report called directly, then called again on the     *)
(*             document it returned.                                       *)
(* BatchSpec : split_all_reports over a directory of report files.         *)
(***************************************************************************)
EXTENDS Integers, Sequences, FiniteSets, TLC

VARIABLES
    reports,                 \* all_report_dir: file name -> file
    tabledir,                \* serialized tables directory: file name -> file
    outdir,                  \* output_dir: file name -> written json
    serialized_tables_dir,   \* argument of split_all_reports (None or a dir)
    all_report_paths,        \* list(all_report_dir.glob("*.json"))
    n,                       \* position of the batch loop in all_report_paths
    report_path,             \* loop variable of split_all_reports
    warnings,                \* names printed by the "Warning: ..." line
    printed,                 \* the final "Split N files" line (0: not printed)
    pc,                      \* control position
    error,                   \* the exception that propagated, if any
    file_content,            \* argument / return value of _split_report
    serialized_tables_path,  \* argument of _split_report (None or a path)
    tables_by_page,          \* local of _split_report: page -> list of dicts
    chunks,                  \* local of _split_report: list of dicts
    chunk_id,                \* local of _split_report
    i,                       \* index of the next page of the for loop
    heap,                    \* the dict objects created by the passes
    origin,                  \* history: page entry that emitted each chunk
    calls,                   \* number of _split_report calls started
    first_chunks             \* history: chunks read off after the first call

vars == <<reports, tabledir, outdir, serialized_tables_dir, all_report_paths,
          n, report_path, warnings, printed, pc, error, file_content,
          serialized_tables_path, tables_by_page, chunks, chunk_id, i, heap,
          origin, calls, first_chunks>>

batch_vars == <<reports, tabledir, outdir, serialized_tables_dir,
                all_report_paths, n, report_path, warnings, printed>>

(***************************************************************************)
(* Bounds of the model.                                                    *)
(***************************************************************************)
MaxPages == 2       \* page entries per document
MaxTables == 2      \* table records per artifact
NumReports == 2     \* report files in all_report_dir
chunk_size == 6     \* token budget of a piece (300 in the source, scaled
                    \* to the length of the model's texts)

None == "None"
NoError == "no error"

PageNumbers == {1, 2}
TablePageNumbers == PageNumbers \cup {3}     \* 3: a page no document has
Texts == {"", "A. B. C."}

(***************************************************************************)
(* count_tokens: tiktoken is outside the repository; one token per         *)
(* character.                                                              *)
(***************************************************************************)
count_tokens(string) == Len(string)

chunk_overlap == chunk_size \div 6           \* 50 of 300 in the source

(***************************************************************************)
(* RecursiveCharacterTextSplitter.split_text, as _split_page uses it:      *)
(* windows of at most chunk_size tokens, each starting chunk_overlap       *)
(* tokens before the end of the previous one.  No window for empty text.   *)
(***************************************************************************)
RECURSIVE split_text(_)
split_text(text) ==
    IF Len(text) = 0 THEN <<>>
    ELSE IF count_tokens(text) <= chunk_size THEN <<text>>
    ELSE <<SubSeq(text, 1, chunk_size)>>
         \o split_text(SubSeq(text, chunk_size - chunk_overlap + 1, Len(text)))

\* _split_page without the splitter's "no piece for empty text": an empty
\* page yields one empty piece.
split_page_keeps_empty(page) ==
    LET pieces == IF page.text = "" THEN <<"">> ELSE split_text(page.text)
    IN  [k \in 1..Len(pieces) |->
            [page |-> page.page,
             length_tokens |-> count_tokens(pieces[k]),
             text |-> pieces[k]]]

\* _split_page: one fresh dict per piece, without id and type.
_split_page(page) ==
    LET pieces == split_text(page.text)
    IN  [k \in 1..Len(pieces) |->
            [page |-> page.page,
             length_tokens |-> count_tokens(pieces[k]),
             text |-> pieces[k]]]

\* "\n".join(strs)
RECURSIVE Join(_, _)
Join(strs, sep) ==
    IF Len(strs) = 0 THEN ""
    ELSE IF Len(strs) = 1 THEN strs[1]
    ELSE strs[1] \o sep \o Join(Tail(strs), sep)

\* The blocks joined by a space instead of a newline.
TableTextJoinedBySpace(table) ==
    Join([b \in 1..Len(table.serialized.information_blocks) |->
             table.serialized.information_blocks[b].information_block], " ")

TableText(table) ==
    Join([b \in 1..Len(table.serialized.information_blocks) |->
             table.serialized.information_blocks[b].information_block], "\n")

\* A table record on which lines 15-29 raise KeyError.
RaisesKeyError(table) ==
    /\ "serialized" \in DOMAIN table
    /\ \/ "page" \notin DOMAIN table
       \/ "information_blocks" \notin DOMAIN table.serialized
       \/ "table_id" \notin DOMAIN table

(***************************************************************************)
(* _get_serialized_tables_by_page: the loop over `tables`, from record k   *)
(* on.  acc = [tbp: page -> list of dict references, heap, raised].        *)
(***************************************************************************)
RECURSIVE GroupFrom(_, _, _)
GroupFrom(tables, k, acc) ==
    IF k > Len(tables) \/ acc.raised THEN acc
    ELSE LET table == tables[k] IN
         IF "serialized" \notin DOMAIN table THEN GroupFrom(tables, k + 1, acc)
         ELSE IF RaisesKeyError(table)
         THEN [acc EXCEPT !.raised = TRUE]
         ELSE LET page == table.page
                  ref == Len(acc.heap) + 1
                  table_text == TableText(table)
                  before == IF page \in DOMAIN acc.tbp THEN acc.tbp[page]
                            ELSE <<>>
                  dict == [page |-> page,
                           text |-> table_text,
                           table_id |-> table.table_id,
                           length_tokens |-> count_tokens(table_text)]
              IN  GroupFrom(tables, k + 1,
                     [tbp |-> (page :> Append(before, ref)) @@ acc.tbp,
                      heap |-> Append(acc.heap, dict),
                      raised |-> FALSE])

_get_serialized_tables_by_page(tables, h) ==
    GroupFrom(tables, 1, [tbp |-> <<>>, heap |-> h, raised |-> FALSE])

\* dict.get(key, default)
Get(dict, key, default) == IF key \in DOMAIN dict THEN dict[key] ELSE default

\* "for x in refs: x['id'] = id0, id0+1, ...; x['type'] = type", in order.
RECURSIVE Tag(_, _, _, _)
Tag(h, refs, id0, type) ==
    IF Len(refs) = 0 THEN h
    ELSE Tag([h EXCEPT ![Head(refs)] = [id |-> id0, type |-> type] @@ @],
             Tail(refs), id0 + 1, type)

\* The list of dicts as json.dump or a reader of the document sees it.
Deref(h, refs) == [k \in 1..Len(refs) |-> h[refs[k]]]

HasPages(doc) ==
    /\ "content" \in DOMAIN doc
    /\ "pages" \in DOMAIN doc.content

(***************************************************************************)
(* _split_report                                                           *)
(***************************************************************************)
\* Lines 35-42 when opening or grouping the table artifact raises.
SplitBeginRaise ==
    /\ pc = "split"
    /\ serialized_tables_path # None
    /\ \/ /\ serialized_tables_path \notin DOMAIN tabledir
          /\ error' = "FileNotFoundError"
       \/ /\ serialized_tables_path \in DOMAIN tabledir
          /\ _get_serialized_tables_by_page(
                 Get(tabledir[serialized_tables_path], "tables", <<>>),
                 heap).raised
          /\ error' = "KeyError"
    /\ pc' = "raised"
    /\ UNCHANGED <<batch_vars, file_content, serialized_tables_path,
                   tables_by_page, chunks, chunk_id, i, heap, origin, calls,
                   first_chunks>>

\* SplitBegin that starts from the chunks the document already carries
\* instead of an empty list and a counter of 0.
SplitBeginKeepsChunks ==
    /\ pc = "split"
    /\ \/ /\ serialized_tables_path = None
          /\ tables_by_page' = <<>>
          /\ heap' = heap
       \/ /\ serialized_tables_path # None
          /\ serialized_tables_path \in DOMAIN tabledir
          /\ LET r == _get_serialized_tables_by_page(
                          Get(tabledir[serialized_tables_path], "tables", <<>>),
                          heap)
             IN  /\ ~r.raised
                 /\ tables_by_page' = r.tbp
                 /\ heap' = r.heap
    /\ chunks' = IF "content" \in DOMAIN file_content
                 THEN Get(file_content.content, "chunks", <<>>) ELSE <<>>
    /\ chunk_id' = Len(chunks')
    /\ origin' = [k \in 1..Len(chunks') |-> 0]
    /\ i' = 1
    /\ pc' = "loop"
    /\ UNCHANGED <<batch_vars, error, file_content, serialized_tables_path,
                   calls, first_chunks>>

\* Lines 35-42: chunks = [], chunk_id = 0, tables_by_page built.
SplitBegin ==
    /\ pc = "split"
    /\ \/ /\ serialized_tables_path = None
          /\ tables_by_page' = <<>>
          /\ heap' = heap
       \/ /\ serialized_tables_path # None
          /\ serialized_tables_path \in DOMAIN tabledir
          /\ LET r == _get_serialized_tables_by_page(
                          Get(tabledir[serialized_tables_path], "tables", <<>>),
                          heap)
             IN  /\ ~r.raised
                 /\ tables_by_page' = r.tbp
                 /\ heap' = r.heap
    /\ chunks' = <<>>
    /\ chunk_id' = 0
    /\ origin' = <<>>
    /\ i' = 1
    /\ pc' = "loop"
    /\ UNCHANGED <<batch_vars, error, file_content, serialized_tables_path,
                   calls, first_chunks>>

\* Line 44 on a document without content.pages.
LoopRaise ==
    /\ pc = "loop"
    /\ ~HasPages(file_content)
    /\ pc' = "raised"
    /\ error' = "KeyError"
    /\ UNCHANGED <<batch_vars, file_content, serialized_tables_path,
                   tables_by_page, chunks, chunk_id, i, heap, origin, calls,
                   first_chunks>>

\* PageIteration with the page's tables emitted before its content.
PageIterationTablesFirst ==
    /\ pc = "loop"
    /\ HasPages(file_content)
    /\ i <= Len(file_content.content.pages)
    /\ LET page == file_content.content.pages[i]
           page_chunks == _split_page(page)
           m == Len(page_chunks)
           content_refs == [k \in 1..m |-> Len(heap) + k]
           table_refs == IF DOMAIN tables_by_page # {}
                            /\ page.page \in DOMAIN tables_by_page
                         THEN tables_by_page[page.page]
                         ELSE <<>>
           h1 == Tag(heap \o page_chunks, table_refs, chunk_id,
                     "serialized_table")
           h2 == Tag(h1, content_refs, chunk_id + Len(table_refs), "content")
       IN  /\ heap' = h2
           /\ chunks' = chunks \o table_refs \o content_refs
           /\ chunk_id' = chunk_id + m + Len(table_refs)
           /\ origin' = origin \o [k \in 1..(m + Len(table_refs)) |-> i]
    /\ i' = i + 1
    /\ UNCHANGED <<batch_vars, pc, error, file_content,
                   serialized_tables_path, tables_by_page, calls,
                   first_chunks>>

\* PageIteration that looks the tables up by the position of the page in
\* the document instead of by its page number.
PageIterationTablesByPosition ==
    /\ pc = "loop"
    /\ HasPages(file_content)
    /\ i <= Len(file_content.content.pages)
    /\ LET page == file_content.content.pages[i]
           page_chunks == _split_page(page)
           m == Len(page_chunks)
           content_refs == [k \in 1..m |-> Len(heap) + k]
           h1 == Tag(heap \o page_chunks, content_refs, chunk_id, "content")
           table_refs == IF DOMAIN tables_by_page # {}
                            /\ i \in DOMAIN tables_by_page
                         THEN tables_by_page[i]
                         ELSE <<>>
           h2 == Tag(h1, table_refs, chunk_id + m, "serialized_table")
       IN  /\ heap' = h2
           /\ chunks' = chunks \o content_refs \o table_refs
           /\ chunk_id' = chunk_id + m + Len(table_refs)
           /\ origin' = origin \o [k \in 1..(m + Len(table_refs)) |-> i]
    /\ i' = i + 1
    /\ UNCHANGED <<batch_vars, pc, error, file_content,
                   serialized_tables_path, tables_by_page, calls,
                   first_chunks>>

\* Lines 44-62: one iteration of the loop over the pages.
PageIteration ==
    /\ pc = "loop"
    /\ HasPages(file_content)
    /\ i <= Len(file_content.content.pages)
    /\ LET page == file_content.content.pages[i]
           page_chunks == _split_page(page)
           m == Len(page_chunks)
           content_refs == [k \in 1..m |-> Len(heap) + k]
           h1 == Tag(heap \o page_chunks, content_refs, chunk_id, "content")
           table_refs == IF DOMAIN tables_by_page # {}
                            /\ page.page \in DOMAIN tables_by_page
                         THEN tables_by_page[page.page]
                         ELSE <<>>
           h2 == Tag(h1, table_refs, chunk_id + m, "serialized_table")
       IN  /\ heap' = h2
           /\ chunks' = chunks \o content_refs \o table_refs
           /\ chunk_id' = chunk_id + m + Len(table_refs)
           /\ origin' = origin \o [k \in 1..(m + Len(table_refs)) |-> i]
    /\ i' = i + 1
    /\ UNCHANGED <<batch_vars, pc, error, file_content,
                   serialized_tables_path, tables_by_page, calls,
                   first_chunks>>

\* Lines 64-65: file_content['content']['chunks'] = chunks; return.
SplitReturn ==
    /\ pc = "loop"
    /\ HasPages(file_content)
    /\ i > Len(file_content.content.pages)
    /\ file_content' =
          [file_content EXCEPT
              !.content = [chunks |-> chunks] @@ file_content.content]
    /\ pc' = "returned"
    /\ UNCHANGED <<batch_vars, error, serialized_tables_path, tables_by_page,
                   chunks, chunk_id, i, heap, origin, calls, first_chunks>>

\* A caller passes the returned document to _split_report once more, with
\* the same table artifact.
SecondCall ==
    /\ pc = "returned"
    /\ calls = 1
    /\ calls' = 2
    /\ first_chunks' = Deref(heap, file_content.content.chunks)
    /\ pc' = "split"
    /\ UNCHANGED <<batch_vars, error, file_content, serialized_tables_path,
                   tables_by_page, chunks, chunk_id, i, heap, origin>>

(***************************************************************************)
(* Inputs of a direct call.                                                *)
(***************************************************************************)
PageEntries == [page : PageNumbers, text : Texts]

PageSeqs == UNION {[1..k -> PageEntries] : k \in 0..MaxPages}

NoPagesDoc == [content |-> [metainfo |-> "m"]]

Documents == {[content |-> [pages |-> ps]] : ps \in PageSeqs}

TableId(k) == "T" \o ToString(k)

InformationBlocks(k) ==
    IF k = 1 THEN <<[information_block |-> "Header"],
                    [information_block |-> "Row1"]>>
    ELSE IF k = 2 THEN <<[information_block |-> "Total"]>>
    ELSE <<>>

\* The k-th record of an artifact: without 'serialized', with it, or with a
\* 'serialized' that has no information_blocks.
TableRecords(k) ==
    {[page |-> p, table_id |-> TableId(k)] : p \in TablePageNumbers}
    \cup {[page |-> p, table_id |-> TableId(k),
           serialized |-> [information_blocks |-> InformationBlocks(k)]]
            : p \in TablePageNumbers}
    \cup {[page |-> 1, table_id |-> TableId(k),
           serialized |-> [summary |-> "s"]]}

RECURSIVE TableSeqs(_)
TableSeqs(len) ==
    IF len = 0 THEN {<<>>}
    ELSE TableSeqs(len - 1)
         \cup {Append(s, t) : s \in {x \in TableSeqs(len - 1) : Len(x) = len - 1},
                              t \in TableRecords(len)}

Artifacts == {[tables |-> ts] : ts \in TableSeqs(MaxTables)}
             \cup {[metainfo |-> "m"]}

ReportName(k) == "r" \o ToString(k) \o ".json"

Init ==
    /\ reports = <<>>
    /\ outdir = <<>>
    /\ serialized_tables_dir = None
    /\ all_report_paths = <<>>
    /\ n = 0
    /\ report_path = None
    /\ warnings = {}
    /\ printed = 0
    /\ file_content \in Documents \cup {NoPagesDoc}
    /\ \/ serialized_tables_path = None /\ tabledir = <<>>
       \/ serialized_tables_path = ReportName(1) /\ tabledir = <<>>
       \/ /\ serialized_tables_path = ReportName(1)
          /\ tabledir \in {(ReportName(1) :> a) : a \in Artifacts}
    /\ pc = "split"
    /\ error = NoError
    /\ tables_by_page = <<>>
    /\ chunks = <<>>
    /\ chunk_id = 0
    /\ i = 1
    /\ heap = <<>>
    /\ origin = <<>>
    /\ calls = 1
    /\ first_chunks = <<>>

Next ==
    \/ SplitBegin
    \/ SplitBeginRaise
    \/ LoopRaise
    \/ PageIteration
    \/ SplitReturn
    \/ SecondCall

Spec == Init /\ [][Next]_vars

(***************************************************************************)
(* split_all_reports                                                       *)
(***************************************************************************)
ReportNames == {ReportName(k) : k \in 1..NumReports}

\* What json.dump writes: the document with its chunk dicts by value.
Dump(doc, h) ==
    [doc EXCEPT !.content = [chunks |-> Deref(h, doc.content.chunks)] @@ @]

\* Path.exists() of serialized_tables_dir / name
Exists(name) == name \in DOMAIN tabledir

\* Lines 104-108 for the report at position n: the path of its table
\* artifact and the warnings printed so far.
TablesPathOf(name) ==
    IF serialized_tables_dir # None THEN name ELSE None

WarningsAfter(name) ==
    IF serialized_tables_dir # None /\ ~Exists(name)
    THEN warnings \cup {name} ELSE warnings

\* BatchOpen that opens (and so truncates) the output file before the
\* report is chunked.
BatchOpenTruncatesOutput ==
    /\ pc = "batch"
    /\ n <= Len(all_report_paths)
    /\ reports[all_report_paths[n]].json
    /\ report_path' = all_report_paths[n]
    /\ serialized_tables_path' = TablesPathOf(all_report_paths[n])
    /\ warnings' = WarningsAfter(all_report_paths[n])
    /\ file_content' = reports[all_report_paths[n]].data
    /\ outdir' = (all_report_paths[n] :> [content |-> [chunks |-> <<>>]])
                 @@ outdir
    /\ pc' = "split"
    /\ UNCHANGED <<reports, tabledir, serialized_tables_dir,
                   all_report_paths, n, printed, error, tables_by_page,
                   chunks, chunk_id, i, heap, origin, calls, first_chunks>>

\* Lines 103-113: next report, warning if its artifact is missing, the
\* report is read and _split_report is called with the artifact's path.
BatchOpen ==
    /\ pc = "batch"
    /\ n <= Len(all_report_paths)
    /\ reports[all_report_paths[n]].json
    /\ report_path' = all_report_paths[n]
    /\ serialized_tables_path' = TablesPathOf(all_report_paths[n])
    /\ warnings' = WarningsAfter(all_report_paths[n])
    /\ file_content' = reports[all_report_paths[n]].data
    /\ pc' = "split"
    /\ UNCHANGED <<reports, tabledir, outdir, serialized_tables_dir,
                   all_report_paths, n, printed, error, tables_by_page,
                   chunks, chunk_id, i, heap, origin, calls, first_chunks>>

\* Lines 103-111 when json.load of the report raises.
BatchOpenRaise ==
    /\ pc = "batch"
    /\ n <= Len(all_report_paths)
    /\ ~reports[all_report_paths[n]].json
    /\ report_path' = all_report_paths[n]
    /\ serialized_tables_path' = TablesPathOf(all_report_paths[n])
    /\ warnings' = WarningsAfter(all_report_paths[n])
    /\ pc' = "raised"
    /\ error' = "JSONDecodeError"
    /\ UNCHANGED <<reports, tabledir, outdir, serialized_tables_dir,
                   all_report_paths, n, printed, file_content,
                   tables_by_page, chunks, chunk_id, i, heap, origin, calls,
                   first_chunks>>

\* Lines 114-117: the returned document is written; on to the next report.
BatchWrite ==
    /\ pc = "returned"
    /\ outdir' = (report_path :> Dump(file_content, heap)) @@ outdir
    /\ n' = n + 1
    /\ pc' = "batch"
    /\ UNCHANGED <<reports, tabledir, serialized_tables_dir,
                   all_report_paths, report_path, warnings, printed, error,
                   file_content, serialized_tables_path, tables_by_page,
                   chunks, chunk_id, i, heap, origin, calls, first_chunks>>

\* Line 119, after the last report.
BatchDone ==
    /\ pc = "batch"
    /\ n > Len(all_report_paths)
    /\ printed' = Len(all_report_paths)
    /\ pc' = "done"
    /\ UNCHANGED <<reports, tabledir, outdir, serialized_tables_dir,
                   all_report_paths, n, report_path, warnings, error,
                   file_content, serialized_tables_path, tables_by_page,
                   chunks, chunk_id, i, heap, origin, calls, first_chunks>>

(***************************************************************************)
(* Inputs of a batch run.  Every assignment of files to names is drawn,    *)
(* so the order of glob's listing is fixed to the order of the names.      *)
(***************************************************************************)
BatchDocument == [content |-> [pages |-> <<[page |-> 1, text |-> "A. B. C."]>>]]

ReportFiles ==
    {[json |-> FALSE],
     [json |-> TRUE, data |-> NoPagesDoc],
     [json |-> TRUE, data |-> BatchDocument]}

BatchArtifacts ==
    {[tables |-> <<[page |-> 1, table_id |-> TableId(1),
                    serialized |-> [information_blocks |-> InformationBlocks(1)]]>>],
     [tables |-> <<[page |-> 1, table_id |-> TableId(1),
                    serialized |-> [summary |-> "s"]]>>]}

\* An output file left by an earlier run.
StaleOutput == [content |-> [chunks |-> <<[id |-> 0, type |-> "stale"]>>]]

BatchInit ==
    /\ reports \in [ReportNames -> ReportFiles]
    /\ \/ serialized_tables_dir = None /\ tabledir = <<>>
       \/ /\ serialized_tables_dir = "tables"
          /\ tabledir \in UNION {[S -> BatchArtifacts] : S \in SUBSET ReportNames}
    /\ outdir \in {<<>>} \cup {(name :> StaleOutput) : name \in ReportNames}
    /\ all_report_paths = [k \in 1..NumReports |-> ReportName(k)]
    /\ n = 1
    /\ report_path = None
    /\ warnings = {}
    /\ printed = 0
    /\ pc = "batch"
    /\ error = NoError
    /\ file_content = [content |-> [pages |-> <<>>]]
    /\ serialized_tables_path = None
    /\ tables_by_page = <<>>
    /\ chunks = <<>>
    /\ chunk_id = 0
    /\ i = 1
    /\ heap = <<>>
    /\ origin = <<>>
    /\ calls = 0
    /\ first_chunks = <<>>

BatchNext ==
    \/ BatchOpen
    \/ BatchOpenRaise
    \/ SplitBegin
    \/ SplitBeginRaise
    \/ LoopRaise
    \/ PageIteration
    \/ SplitReturn
    \/ BatchWrite
    \/ BatchDone

BatchSpec == BatchInit /\ [][BatchNext]_vars

(***************************************************************************)
(* Properties of _split_report and _get_serialized_tables_by_page (Spec).  *)
(***************************************************************************)
\* The chunks of the returned document, as a reader sees them.
OutChunks == Deref(heap, file_content.content.chunks)

InputPages == file_content.content.pages

InputPageNumbers == {InputPages[k].page : k \in 1..Len(InputPages)}

Returned == pc = "returned"

\* The tables of the artifact the call was given.
InputTables ==
    IF serialized_tables_path # None /\ serialized_tables_path \in DOMAIN tabledir
    THEN Get(tabledir[serialized_tables_path], "tables", <<>>)
    ELSE <<>>

\* C1: after _split_report the ids read off content.chunks in output order
\* are 0, 1, ..., N-1: the chunk at position k (from 1) has id k-1.
C1_IdsAreContiguous ==
    Returned => \A k \in 1..Len(OutChunks) : OutChunks[k].id = k - 1

\* C4 as stated: in the returned chunks every content chunk of page p is
\* positioned before every serialized_table chunk of page p, for any input.
C4_ContentBeforeTablesByPageNumber ==
    Returned =>
        \A a, b \in 1..Len(OutChunks) :
            /\ OutChunks[a].type = "content"
            /\ OutChunks[b].type = "serialized_table"
            /\ OutChunks[a].page = OutChunks[b].page
            => a < b

DistinctPageNumbers ==
    \A a, b \in 1..Len(InputPages) :
        InputPages[a].page = InputPages[b].page => a = b

\* C4 amended: the content chunks emitted for a page entry precede the
\* serialized_table chunks emitted for that same entry; when no two page
\* entries share a page number, every content chunk of page p precedes
\* every serialized_table chunk of page p.
C4_ContentBeforeTablesByPageEntry ==
    Returned =>
        /\ \A a, b \in 1..Len(OutChunks) :
              /\ OutChunks[a].type = "content"
              /\ OutChunks[b].type = "serialized_table"
              /\ origin[a] = origin[b]
              => a < b
        /\ DistinctPageNumbers =>
              \A a, b \in 1..Len(OutChunks) :
                  /\ OutChunks[a].type = "content"
                  /\ OutChunks[b].type = "serialized_table"
                  /\ OutChunks[a].page = OutChunks[b].page
                  => a < b

\* C4 witness: a returned document with distinct page numbers in which a
\* page has a content chunk followed by a serialized_table chunk.
C4_Witness ==
    /\ Returned
    /\ DistinctPageNumbers
    /\ Len(InputPages) = 2
    /\ \E a, b \in 1..Len(OutChunks) :
          /\ a < b
          /\ OutChunks[a].type = "content"
          /\ OutChunks[b].type = "serialized_table"
          /\ OutChunks[a].page = OutChunks[b].page

NonDecreasing(seq) ==
    \A a, b \in 1..Len(seq) : a < b => seq[a] <= seq[b]

\* Each chunk carries the page number of the page entry that emitted it,
\* and chunks of an earlier entry come before chunks of a later one.
FollowsInputOrder ==
    /\ Len(origin) = Len(OutChunks)
    /\ NonDecreasing(origin)
    /\ \A k \in 1..Len(OutChunks) :
          /\ origin[k] \in 1..Len(InputPages)
          /\ OutChunks[k].page = InputPages[origin[k]].page

OnlyInputPageNumbers ==
    \A k \in 1..Len(OutChunks) : OutChunks[k].page \in InputPageNumbers

\* No chunk comes from a table whose page the document does not have.
AbsentPageTablesDropped ==
    \A t \in 1..Len(InputTables) :
        InputTables[t].page \notin InputPageNumbers =>
            \A k \in 1..Len(OutChunks) :
                "table_id" \in DOMAIN OutChunks[k] =>
                    OutChunks[k].table_id # InputTables[t].table_id

\* C5 as stated: the page values of the returned chunks are non-decreasing
\* and follow the input page order, and no chunk carries a page number that
\* no input page has.
C5_PagesNonDecreasing ==
    Returned =>
        /\ NonDecreasing([k \in 1..Len(OutChunks) |-> OutChunks[k].page])
        /\ FollowsInputOrder
        /\ OnlyInputPageNumbers
        /\ AbsentPageTablesDropped

\* C5 amended: the page values follow the input page order (non-decreasing
\* when the input page numbers are), no chunk carries a page number that no
\* input page has, and a table on an absent page yields no chunk.
C5_PagesFollowInput ==
    Returned =>
        /\ FollowsInputOrder
        /\ OnlyInputPageNumbers
        /\ AbsentPageTablesDropped
        /\ NonDecreasing([k \in 1..Len(InputPages) |-> InputPages[k].page])
              => NonDecreasing([k \in 1..Len(OutChunks) |-> OutChunks[k].page])

\* C5 witness: two page entries with chunks each, a serialized table on a
\* page the document lacks, and a serialized table on a page it has.
C5_Witness ==
    /\ Returned
    /\ Len(InputPages) = 2
    /\ \E a, b \in 1..Len(OutChunks) : origin[a] = 1 /\ origin[b] = 2
    /\ \E t \in 1..Len(InputTables) :
          /\ "serialized" \in DOMAIN InputTables[t]
          /\ InputTables[t].page \notin InputPageNumbers
    /\ \E k \in 1..Len(OutChunks) : OutChunks[k].type = "serialized_table"

\* C6: a second _split_report on the returned document with the same table
\* artifact yields the same chunks: same length and, at every position, the
\* same id, type, page, text, length_tokens and table_id.
C6_SecondRunIdentical ==
    (Returned /\ calls = 2) => OutChunks = first_chunks

\* C6 witness: the second call returned chunks of both types.
C6_Witness ==
    /\ Returned
    /\ calls = 2
    /\ \E a, b \in 1..Len(OutChunks) :
          /\ OutChunks[a].type = "content"
          /\ OutChunks[b].type = "serialized_table"

\* C7: during a pass, a chunk already appended is not changed by a later
\* step (same dict at the same position, with the same fields), and no two
\* output positions hold the same chunk record.
C7_AppendedChunksFrozen ==
    [][(pc = "loop" /\ pc' = "loop") =>
          /\ \A k \in 1..Len(chunks) :
                /\ k <= Len(chunks')
                /\ chunks'[k] = chunks[k]
                /\ heap'[chunks[k]] = heap[chunks[k]]
          /\ \A a, b \in 1..Len(chunks') :
                chunks'[a] = chunks'[b] => a = b]_vars

\* text is the blocks joined by single newlines.
RECURSIVE JoinedByNewline(_, _)
JoinedByNewline(text, blocks) ==
    IF Len(blocks) = 0 THEN text = ""
    ELSE IF Len(blocks) = 1 THEN text = blocks[1]
    ELSE LET first == Len(blocks[1]) IN
         /\ Len(text) > first
         /\ SubSeq(text, 1, first) = blocks[1]
         /\ SubSeq(text, first + 1, first + 1) = "\n"
         /\ JoinedByNewline(SubSeq(text, first + 2, Len(text)), Tail(blocks))

IsSerialized(t) == "serialized" \in DOMAIN t

\* C9: right after the grouping, tables_by_page has an entry exactly for
\* the pages of the tables that carry 'serialized'; the entry lists one
\* candidate per such table, in input order, with its table_id, its
\* information_block strings joined by a newline as text (whole, whatever
\* its length) and no other table's.  A table without 'serialized' raises
\* nothing: the grouping raises only on a table that carries 'serialized'
\* without information_blocks.
C9_TablesGroupedByPage ==
    /\ (pc = "raised" /\ error = "KeyError" /\ HasPages(file_content)) =>
          \E t \in 1..Len(InputTables) :
              /\ IsSerialized(InputTables[t])
              /\ "information_blocks" \notin DOMAIN InputTables[t].serialized
    /\ (pc = "loop" /\ i = 1) =>
        /\ DOMAIN tables_by_page =
              {InputTables[t].page :
                  t \in {x \in 1..Len(InputTables) : IsSerialized(InputTables[x])}}
        /\ \A p \in DOMAIN tables_by_page :
              LET on_page == SelectSeq(InputTables,
                                 LAMBDA t : IsSerialized(t) /\ t.page = p)
                  cands == Deref(heap, tables_by_page[p])
              IN  /\ Len(cands) = Len(on_page)
                  /\ \A k \in 1..Len(cands) :
                        /\ DOMAIN cands[k] =
                              {"page", "text", "table_id", "length_tokens"}
                        /\ cands[k].page = p
                        /\ cands[k].table_id = on_page[k].table_id
                        /\ cands[k].length_tokens = Len(cands[k].text)
                        /\ JoinedByNewline(cands[k].text,
                              [b \in 1..Len(on_page[k].serialized.information_blocks)
                                 |-> on_page[k].serialized.information_blocks[b]
                                        .information_block])

\* C9 witness: two serialized tables on one page, grouped in input order,
\* the first with text "Header\nRow1", longer than a content piece may be.
C9_Witness ==
    /\ pc = "loop"
    /\ i = 1
    /\ \E p \in DOMAIN tables_by_page :
          /\ Len(tables_by_page[p]) = 2
          /\ heap[tables_by_page[p][1]].text = "Header\nRow1"
          /\ heap[tables_by_page[p][1]].length_tokens > chunk_size
          /\ heap[tables_by_page[p][2]].table_id = TableId(2)

\* C10: the iteration of a page with empty text creates no content chunk
\* and consumes no id for one; it appends exactly the page's table
\* candidates, in candidate order, with the ids that follow the id of the
\* last chunk emitted before (from 0 when there is none).
C10_EmptyPageEmitsOnlyTables ==
    [][(/\ pc = "loop"
        /\ HasPages(file_content)
        /\ i <= Len(file_content.content.pages)
        /\ file_content.content.pages[i].text = ""
        /\ i' = i + 1)
       => LET p == file_content.content.pages[i].page
              cands == IF p \in DOMAIN tables_by_page
                       THEN tables_by_page[p] ELSE <<>>
              base == IF Len(chunks) = 0 THEN 0
                      ELSE heap[chunks[Len(chunks)]].id + 1
          IN  /\ chunks' = chunks \o cands
              /\ Len(heap') = Len(heap)
              /\ chunk_id' = chunk_id + Len(cands)
              /\ \A k \in 1..Len(cands) :
                    /\ heap'[cands[k]].id = base + k - 1
                    /\ heap'[cands[k]].type = "serialized_table"]_vars

\* C10 witness: the second page entry was empty, followed a page with
\* content, and had table candidates, which are the last chunks emitted.
C10_Witness ==
    /\ pc = "loop"
    /\ i = 3
    /\ HasPages(file_content)
    /\ file_content.content.pages[1].text # ""
    /\ file_content.content.pages[2].text = ""
    /\ file_content.content.pages[2].page \in DOMAIN tables_by_page
    /\ \E a, b \in 1..Len(chunks) :
          /\ origin[a] = 1
          /\ origin[b] = 2
          /\ heap[chunks[b]].type = "serialized_table"

(***************************************************************************)
(* Properties of split_all_reports (BatchSpec).                            *)
(***************************************************************************)
WellFormedReport(name) ==
    /\ reports[name].json
    /\ HasPages(reports[name].data)

WellFormedArtifact(name) ==
    /\ Exists(name)
    /\ \A t \in 1..Len(Get(tabledir[name], "tables", <<>>)) :
          ~RaisesKeyError(tabledir[name].tables[t])

\* The batch loop is past the report.
Processed(name) ==
    \E k \in 1..Len(all_report_paths) : all_report_paths[k] = name /\ k < n

\* The file the run wrote for the report: the enriched document.
Written(name) ==
    /\ name \in DOMAIN outdir
    /\ outdir[name] # StaleOutput
    /\ "pages" \in DOMAIN outdir[name].content
    /\ "chunks" \in DOMAIN outdir[name].content

\* C2: with a serialized_tables_dir, a well-formed report whose table
\* artifact does not exist gets a warning and no error: the run does not
\* raise at it, and once the loop is past it its enriched file is written
\* and holds content chunks only.
C2_MissingArtifactOnlyWarns ==
    \A name \in ReportNames :
        (/\ serialized_tables_dir # None
         /\ ~Exists(name)
         /\ WellFormedReport(name)
         /\ report_path = name \/ Processed(name))
        => /\ name \in warnings
           /\ ~(pc = "raised" /\ report_path = name)
           /\ Processed(name) =>
                 /\ Written(name)
                 /\ \A k \in 1..Len(outdir[name].content.chunks) :
                       outdir[name].content.chunks[k].type = "content"

\* A report that split_all_reports processes without error when it is the
\* only file of the input directory.
SucceedsAlone(name) ==
    /\ WellFormedReport(name)
    /\ serialized_tables_dir # None => WellFormedArtifact(name)

\* C3: when the batch run has ended, every report that is processable on
\* its own has its output file written, whatever happened to the others.
C3_FailureDoesNotAbortBatch ==
    pc \in {"done", "raised"} =>
        \A name \in ReportNames : SucceedsAlone(name) => Written(name)

\* C8: the output directory changes only by the write that follows a
\* successful _split_report of the current report, and that write touches
\* the current report's file alone; so when processing a report fails, its
\* output file is neither created nor written and the files of earlier
\* reports stay as they were.
C8_NoOutputForFailedReport ==
    /\ [](pc = "raised" =>
             \/ report_path \notin DOMAIN outdir
             \/ outdir[report_path] = StaleOutput)
    /\ [][outdir' # outdir =>
             /\ pc = "returned"
             /\ pc' = "batch"
             /\ error' = NoError
             /\ DOMAIN outdir' = DOMAIN outdir \cup {report_path}
             /\ \A name \in DOMAIN outdir :
                   name # report_path => outdir'[name] = outdir[name]]_vars
    /\ [][pc' = "raised" => outdir' = outdir]_vars

\* C8 witness: the second report failed while chunking, after the first
\* report's file was written; the second has no output file.
C8_Witness ==
    /\ pc = "raised"
    /\ error = "KeyError"
    /\ n = 2
    /\ report_path = ReportName(2)
    /\ Written(ReportName(1))
    /\ ReportName(2) \notin DOMAIN outdir

====
